---------------------------- MODULE Spec2Model ----------------------------
(***************************************************************************)
(* Explicit finite-difference time marching as driven by the notebooks:    *)
(*   - 1-D convection          (src/unnamed/part_000)                      *)
(*   - acoustic wave modelling (D-seismic_modelling_devito)                *)
(*   - repeated forward runs   (E-fwi_devito, fwi_gradient)                *)
(* Field values are fixed-point integers; every division of the update     *)
(* rules is written where the derived formula has it and rounds down.      *)
(***************************************************************************)
EXTENDS Integers, Sequences, FiniteSets, TLC

VARIABLES
    nb,        \* which notebook's run this behaviour is
    nt,        \* part_000: nt;  D/E: time_range.num
    dt,        \* timestep size
    u,         \* u.data: time level -> grid point -> value
    time,      \* the operator's time index
    pc,        \* position of the run
    todo,      \* part_000: grid points the current sweep has not updated yet
    pulse,     \* part_000: <<lo, hi>> of the initial pulse, range(lo, hi)
    src,       \* D/E: the source, [x, z: coordinates, data: time index -> amplitude]
    rec,       \* D/E: rec.data, time index -> receiver -> sample
    save,      \* D/E: whether u keeps every time level (save=time_range.num)
    run,       \* D/E: 1 for the first run on the buffer, 2 for the rerun
    reset,     \* D/E: whether u.data.fill(0.) preceded the rerun
    out1,      \* observation: <<u, rec>> as the first run left them; E: the model
               \*              before each update of the descent loop
    args,      \* set-up: the arguments of the Grid(...) call, [shape, extent], and
               \*         the spacing given to Model(...) when the call is the model's
    grid,      \* set-up: the grid object, <<>> while there is none
    raised,    \* what the set-up or the run ended with abnormally, "none" if nothing
    log,       \* observation: what the run has executed so far
    probe,     \* kernel test: the coordinate sampled, [x, z]
    model0,    \* E: model0.m.data, grid node -> square slowness
    grad,      \* E: grad.data, grid node -> accumulated gradient
    objective, \* E: the objective accumulated by fwi_gradient
    history,   \* E: history, the objective value stored per iteration
    shots,     \* E: the shots fwi_gradient has not processed yet, in order
    true_d,    \* E: true_d.data
    residual,  \* E: residual.data
    iter       \* E: the index i of the descent loop

convVars == <<todo, pulse>>
waveVars == <<src, rec, save, run, reset, out1>>
gridVars == <<args, grid, raised>>
probeVars == <<probe>>
fwiVars == <<model0, grad, objective, history, shots, true_d, residual, iter>>
vars == <<nb, nt, dt, u, time, pc, todo, pulse, src, rec, save, run, reset, out1,
          args, grid, raised, log, probe, model0, grad, objective, history,
          shots, true_d, residual, iter>>

\* The variables of the kernel test and of the inversion while unused.
NoProbe == probe = <<>>
NoFwi ==
    /\ model0 = <<>> /\ grad = <<>> /\ objective = 0 /\ history = <<>>
    /\ shots = <<>> /\ true_d = <<>> /\ residual = <<>> /\ iter = 0

Abs(v) == IF v < 0 THEN -v ELSE v

\* A magnitude far below the float32 maximum: every value within it is a
\* finite float.
FiniteMax == 2^30

IsFinite(v) == Abs(v) <= FiniteMax

\* A magnitude beyond FiniteMax: the float inf.
Infinity == FiniteMax + 1

(***************************************************************************)
(*                     1-D convection  (part_000)                          *)
(***************************************************************************)

\* Number of grid points (nx = 41 in the notebook, scaled down).
NX == 4
\* Largest nt tried (nt = 25 in the notebook).
MaxNt == 2

\* One field unit: the value 1.0 in fixed point.
Unit == 2^6
\* c = 1
c == 1
\* Grid spacing h_x = extent / (nx - 1) = 2 / 40, in time-units of dt / 2:
\* the notebook's dt = 0.025 is 2, its spacing 0.05 is 4 (c * dt / h_x = 1/2).
H == 4
\* The timestep sizes tried: the notebook's dt is 2; 4 is the stability
\* bound h_x / c; 6 and 8 are above it.
DtSet == {1, 2, 4, 6, 8}

Points == 0 .. (NX - 1)

\* grid.shape / u.data[0] after the pulse loop: 2. on range(lo, hi), else 0.
InitialPulse(lo, hi) == [i \in Points |-> IF i >= lo /\ i < hi THEN 2 * Unit ELSE 0]

\* u.data[l][i], with the halo point left of the domain (allocated zero, never written).
At(l, i) == IF i \in Points THEN u[l][i] ELSE 0

\* Time-buffer slots of the operator: t0 = time % 2 (u), t1 = (time + 1) % 2 (u.forward).
T0(t) == t % 2
T1(t) == (t + 1) % 2

\* u.dxr variant of the update (right-sided difference).
StencilRight(l, i) == At(l, i) - ((c * dt * (At(l, i + 1) - At(l, i))) \div H)

\* In-place variant: the left neighbour is read from the level being written.
StencilInPlace(l, i) == At(l, i) - ((c * dt * (At(l, i) - At(1 - l, i - 1))) \div H)

\* stencil[0] = solve(Eq(u.dt + c*u.dxl), u.forward)[0]
\*            = u(t,x) - c*dt*(u(t,x) - u(t,x-h_x))/h_x
Stencil(l, i) == At(l, i) - ((c * dt * (At(l, i) - At(l, i - 1))) \div H)

\* op(time=nt+1, dt=dt): the keyword sets the last time index of the loop.
TimeArg(n) == n + 1

\* First time index of the loop.
ConvTimeMin == 0

InitConv ==
    /\ nb = "convection"
    /\ nt \in 0 .. MaxNt
    /\ dt \in DtSet
    /\ \E lo \in Points, hi \in 1 .. NX :
          /\ lo < hi
          /\ pulse = <<lo, hi>>
          /\ u = [l \in 0 .. 1 |-> IF l = 0 THEN InitialPulse(lo, hi)
                                             ELSE [i \in Points |-> 0]]
    /\ time = ConvTimeMin
    /\ pc = "ready"
    /\ todo = {}
    /\ log = <<>>
    /\ src = <<>> /\ rec = <<>> /\ save = FALSE /\ run = 1 /\ reset = FALSE /\ out1 = <<>>
    /\ args = <<>> /\ grid = <<>> /\ raised = "none"
    /\ NoProbe /\ NoFwi

\* op(...) is called: the time loop is entered at its first index.
ConvApply ==
    /\ pc = "ready"
    /\ pc' = IF ConvTimeMin <= TimeArg(nt) THEN "run" ELSE "done"
    /\ todo' = IF ConvTimeMin <= TimeArg(nt) THEN Points ELSE {}
    /\ UNCHANGED <<nb, nt, dt, u, time, pulse, log, waveVars, gridVars, probeVars, fwiVars>>

\* One grid point of the sweep of timestep `time`: u.forward[i] = stencil.
ConvUpdatePoint(i) ==
    /\ pc = "run"
    /\ i \in todo
    /\ u' = [u EXCEPT ![T1(time)][i] = Stencil(T0(time), i)]
    /\ todo' = todo \ {i}
    /\ UNCHANGED <<nb, nt, dt, time, pc, pulse, log, waveVars, gridVars, probeVars, fwiVars>>

\* The sweep of timestep `time` is complete: next time index, or the loop ends.
ConvEndStep ==
    /\ pc = "run"
    /\ todo = {}
    /\ log' = Append(log, time)
    /\ IF time < TimeArg(nt)
          THEN /\ time' = time + 1
               /\ todo' = Points
               /\ pc' = pc
          ELSE /\ pc' = "done"
               /\ UNCHANGED <<time, todo>>
    /\ UNCHANGED <<nb, nt, dt, u, pulse, waveVars, gridVars, probeVars, fwiVars>>

NextConv ==
    \/ ConvApply
    \/ \E i \in Points : ConvUpdatePoint(i)
    \/ ConvEndStep

SpecConv == InitConv /\ [][NextConv]_vars


(***************************************************************************)
(*          Acoustic wave modelling  (D-seismic_modelling_devito)          *)
(*          and reruns on one buffer (E-fwi_devito, fwi_gradient)          *)
(***************************************************************************)

\* Grid points per axis of the physical domain (shape = (101, 101), scaled down).
NG == 3
\* Largest time_range.num tried.
MaxNum == 4

\* Width of the absorbing layer (nbpml), in grid points, scaled down.
Nbpml == 1
\* Grid spacing in coordinate units (spacing = (10., 10.), scaled down):
\* a coordinate with a remainder modulo Spacing lies off the grid nodes.
Spacing == 2
\* dt = model.critical_dt, in the model's time unit.
CriticalDt == 1
\* Square slowness m = 1 / v^2 of the two layers (v = 1.5 above, 2.5 below),
\* in units that keep critical_dt stable: dt^2 / (m * h^2) <= 1/2.
MTop == 5
MBottom == 2
\* Maximum of the damping mask per axis, at the outer edge of the layer.
DampCoeff == 1
\* Depth of source and receivers (20. in the notebook; here half a spacing).
Depth == 1
\* Number of source points (npoint=1).
NPoint == 1
\* The non-zero amplitude of a source sample, in fixed point.
Amp == 2^12

NTot == NG + 2 * Nbpml
Axis == 0 .. (NTot - 1)
Nodes == Axis \X Axis
NRec == NG
Recs == 1 .. NRec
DomainSize == (NG - 1) * Spacing

ZeroField == [n \in Nodes |-> 0]

\* model.m on the padded grid: the layer boundary is at 51 of 101 points in
\* depth; the absorbing layer repeats the edge value.
PhysIndex(a) == IF a < Nbpml THEN 0
                ELSE IF a > NTot - 1 - Nbpml THEN NG - 1 ELSE a - Nbpml
M(n) == IF 101 * PhysIndex(n[2]) < 51 * NG THEN MTop ELSE MBottom

\* model.damp: zero inside the physical domain, ramping up through the layer.
LayerDepth(a) == IF a < Nbpml THEN Nbpml - a
                 ELSE IF a > NTot - 1 - Nbpml THEN a - (NTot - 1 - Nbpml) ELSE 0
Damp(n) == (DampCoeff * (LayerDepth(n[1]) + LayerDepth(n[2]))) \div Nbpml

\* u.data[l][x, z]; the halo around the padded grid is zero and never written.
AtW(l, x, z) == IF x \in Axis /\ z \in Axis THEN u[l][<<x, z>>] ELSE 0

\* Variant of the slot: the modulo indexing also for a saved field.
SlotRotating(t) == t % 3

\* Time-buffer slot of time index t: t % 3 for the rotating buffer of a
\* time_order=2 field, t itself when every level is saved.
Slot(t) == IF save THEN t ELSE t % 3
Levels == IF save THEN 0 .. (nt - 1) ELSE 0 .. 2

\* u.laplace * h^2 at (x, z), space_order=2.
Laplace(l, x, z) ==
    AtW(l, x + 1, z) + AtW(l, x - 1, z) + AtW(l, x, z + 1) + AtW(l, x, z - 1)
      - 4 * AtW(l, x, z)

\* Variant with the damping term entered as model.damp instead of model.damp * u.dt.
WaveStencilNoDt(t, n) ==
    (2 * dt * dt * Laplace(Slot(t), n[1], n[2])
       + Spacing * Spacing * (4 * M(n) * u[Slot(t)][n]
                                - (2 * M(n) - Damp(n) * dt) * u[Slot(t - 1)][n])
       - 2 * dt * dt * Spacing * Spacing * Damp(n))
    \div (Spacing * Spacing * (2 * M(n) + Damp(n) * dt))

\* stencil = Eq(u.forward, solve(pde, u.forward)[0]) with
\* pde = model.m * u.dt2 - u.laplace + model.damp * u.dt:
\*   u.forward = (2 dt^2 laplace + 4 m u - (2 m - damp dt) u.backward) / (2 m + damp dt)
WaveStencil(t, n) ==
    (2 * dt * dt * Laplace(Slot(t), n[1], n[2])
       + Spacing * Spacing * (4 * M(n) * u[Slot(t)][n]
                                - (2 * M(n) - Damp(n) * dt) * u[Slot(t - 1)][n]))
    \div (Spacing * Spacing * (2 * M(n) + Damp(n) * dt))

\* Bilinear kernel of a coordinate: the cell's lower node on the padded grid
\* (offset=model.nbpml), and the weight numerators over Spacing^2.
CellNode(px, pz) == <<(px \div Spacing) + Nbpml, (pz \div Spacing) + Nbpml>>
W1(f, a) == IF a = 0 THEN Spacing - f ELSE IF a = 1 THEN f ELSE 0
Weight(px, pz, n) ==
    W1(px % Spacing, n[1] - CellNode(px, pz)[1])
      * W1(pz % Spacing, n[2] - CellNode(px, pz)[2])
InCell(px, pz, n) ==
    /\ n[1] - CellNode(px, pz)[1] \in {0, 1}
    /\ n[2] - CellNode(px, pz)[2] \in {0, 1}

\* expr = src * dt**2 / model.m at node n, times the node's kernel weight.
Share(t, n) ==
    IF InCell(src.x, src.z, n)
       THEN (Weight(src.x, src.z, n) * src.data[t] * dt * dt)
               \div (Spacing * Spacing * M(n))
       ELSE 0

\* Variant of the injection that stores the contribution instead of adding it.
InjectedOverwrite(old, t, n) == IF InCell(src.x, src.z, n) THEN Share(t, n) ELSE old

\* src.inject(field=u.forward, ...): u.forward[n] += share, NPoint times.
Injected(old, t, n) == old + NPoint * Share(t, n)

\* rec.coordinates: evenly spaced along x (np.linspace(0, domain_size, num)), fixed depth.
RecX(r) == ((r - 1) * DomainSize) \div (NRec - 1)
RecZ(r) == Depth

\* Variant of the sampling that reads the cell's lower node only.
SumNearest(l, px, pz) ==
    Spacing * Spacing * AtW(l, CellNode(px, pz)[1], CellNode(px, pz)[2])

\* rec.interpolate(expr=u.forward, ...): the kernel-weighted sum of the cell's nodes.
SumWeighted(l, px, pz) ==
    LET c0 == CellNode(px, pz)
        V(a, b) == Weight(px, pz, <<c0[1] + a, c0[2] + b>>) * AtW(l, c0[1] + a, c0[2] + b)
    IN  V(0, 0) + V(1, 0) + V(0, 1) + V(1, 1)
Interpolate(l, r) == SumWeighted(l, RecX(r), RecZ(r)) \div (Spacing * Spacing)

\* Variant: the sample of timestep t is stored one row early.
RecRowShifted(t) == t - 1

\* The row of rec.data the interpolation of timestep t is stored in: rec[time].
RecRow(t) == t

\* Variant of the reset that clears the first time level only.
FilledFirstLevelOnly == [u EXCEPT ![0] = ZeroField]

\* u0.data.fill(0.): every level of the buffer is zero.
FilledBuffer == [l \in Levels |-> ZeroField]

\* First time index of the loop: the stencil reads u.backward (time - 1).
TimeMin == 1

\* Last time index: op(time=time_range.num-1, ...); for a saved field
\* u.forward (time + 1) must still be one of the num saved levels.
TimeMax(n) == IF save THEN n - 2 ELSE n - 1

\* Variant of the operator's expression list: src_term + [stencil] + rec_term.
PhaseOrderInjectFirst == <<"inject", "stencil", "sample">>

\* Operator([stencil] + src_term + rec_term): the order of the expressions
\* within one timestep.
PhaseOrder == <<"stencil", "inject", "sample">>

FirstPhase == PhaseOrder[1]
NextPhase(p) ==
    LET k == CHOOSE j \in 1 .. Len(PhaseOrder) : PhaseOrder[j] = p
    IN  IF k < Len(PhaseOrder) THEN PhaseOrder[k + 1] ELSE "advance"

\* The coordinates whose cell lies on the padded grid: the physical extent
\* [0, domain_size] widened by the absorbing layer on either side.
PaddedMin == -(Nbpml * Spacing)
PaddedMax == DomainSize + Nbpml * Spacing
InPadded(px, pz) ==
    /\ px >= PaddedMin /\ px <= PaddedMax
    /\ pz >= PaddedMin /\ pz <= PaddedMax

SrcXs == {0, DomainSize \div 2, (DomainSize \div 2) + 1, DomainSize}
SrcZs == {0, Depth}

InitWave ==
    /\ nb = "seismic"
    /\ nt \in 2 .. MaxNum
    /\ dt = CriticalDt
    /\ save \in BOOLEAN
    /\ save => TimeMin <= TimeMax(nt)
    /\ u = [l \in Levels |-> ZeroField]
    /\ \E x \in SrcXs, z \in SrcZs, d \in [0 .. (nt - 1) -> {0, Amp}] :
          src = [x |-> x, z |-> z, data |-> d]
    /\ rec = [k \in 0 .. (nt - 1) |-> [r \in Recs |-> 0]]
    /\ time = TimeMin
    /\ pc = "ready"
    /\ run = 1
    /\ reset = FALSE
    /\ out1 = <<>>
    /\ log = <<>>
    /\ todo = {} /\ pulse = <<>>
    /\ args = <<>> /\ grid = <<>> /\ raised = "none"
    /\ NoProbe /\ NoFwi

\* op(time=..., dt=...) / solver.forward(...): the time loop is entered.
WaveApply ==
    /\ pc = "ready"
    /\ time' = TimeMin
    /\ pc' = IF TimeMin <= TimeMax(nt) THEN FirstPhase ELSE "advance"
    /\ log' = <<>>
    /\ UNCHANGED <<nb, nt, dt, u, convVars, waveVars, gridVars, probeVars, fwiVars>>

\* The stencil expression over the whole padded grid.
WaveStencilStep ==
    /\ pc = "stencil"
    /\ u' = [u EXCEPT ![Slot(time + 1)] = [n \in Nodes |-> WaveStencil(time, n)]]
    /\ pc' = NextPhase("stencil")
    /\ log' = Append(log, <<time, "stencil">>)
    /\ UNCHANGED <<nb, nt, dt, time, convVars, waveVars, gridVars, probeVars, fwiVars>>

\* The source injection into u.forward.
WaveInject ==
    /\ pc = "inject"
    /\ InPadded(src.x, src.z)
    /\ u' = [u EXCEPT ![Slot(time + 1)] =
                [n \in Nodes |-> Injected(u[Slot(time + 1)][n], time, n)]]
    /\ pc' = NextPhase("inject")
    /\ log' = Append(log, <<time, "inject">>)
    /\ UNCHANGED <<nb, nt, dt, time, convVars, waveVars, gridVars, probeVars, fwiVars>>

\* The receiver interpolation from u.forward into row `time` of rec.data.
WaveSample ==
    /\ pc = "sample"
    /\ rec' = [rec EXCEPT ![RecRow(time)] = [r \in Recs |-> Interpolate(Slot(time + 1), r)]]
    /\ pc' = NextPhase("sample")
    /\ log' = Append(log, <<time, "sample">>)
    /\ UNCHANGED <<nb, nt, dt, u, time, convVars, src, save, run, reset, out1, gridVars, probeVars, fwiVars>>

\* End of the loop body: the next time index (the buffer slots rotate with
\* it), or the end of the run.
WaveAdvance ==
    /\ pc = "advance"
    /\ IF time < TimeMax(nt)
          THEN /\ time' = time + 1
               /\ pc' = FirstPhase
               /\ out1' = out1
          ELSE /\ pc' = "done"
               /\ time' = time
               /\ out1' = IF run = 1 THEN <<u, rec>> ELSE out1
    /\ UNCHANGED <<nb, nt, dt, u, convVars, src, rec, save, run, reset, log, gridVars, probeVars, fwiVars>>

\* u0.data.fill(0.) between two runs.
WaveFill ==
    /\ pc = "done"
    /\ run = 1
    /\ ~reset
    /\ u' = FilledBuffer
    /\ reset' = TRUE
    /\ UNCHANGED <<nb, nt, dt, time, pc, convVars, src, rec, save, run, out1, log, gridVars, probeVars, fwiVars>>

\* The same operator is applied again to the same buffer.
WaveRerun ==
    /\ pc = "done"
    /\ run = 1
    /\ run' = 2
    /\ pc' = "ready"
    /\ UNCHANGED <<nb, nt, dt, u, time, convVars, src, rec, save, reset, out1, log, gridVars, probeVars, fwiVars>>

NextWave ==
    \/ WaveApply
    \/ WaveStencilStep
    \/ WaveInject
    \/ WaveSample
    \/ WaveAdvance
    \/ WaveFill
    \/ WaveRerun

SpecWave == InitWave /\ [][NextWave]_vars

(***************************************************************************)
(*     Source coordinates on and beyond the edge of the padded grid        *)
(*     (E-fwi_devito: src.coordinates.data[0, :] = source_locations[i, :]) *)
(***************************************************************************)

\* x-coordinates tried for the source: the edges of the physical extent
\* (np.linspace(0., 1000, num=nshots) starts and ends on them), the outer
\* edges of the absorbing layer, and one position beyond either.
CoordXs == {PaddedMin - 2 * Spacing, PaddedMin, 0,
            DomainSize, PaddedMax, PaddedMax + 2 * Spacing}

\* The row an x index outside the array lands on when the flat address is
\* taken modulo the row count.
WrappedNode(px, pz) == <<CellNode(px, pz)[1] % NTot, CellNode(px, pz)[2]>>

\* expr = src * dt**2 / model.m at node n, not split over a cell.
FullShare(t, n) == (src.data[t] * dt * dt) \div M(n)

InitCoord ==
    /\ nb = "seismic"
    /\ nt \in 2 .. MaxNum
    /\ dt = CriticalDt
    /\ save \in BOOLEAN
    /\ save => TimeMin <= TimeMax(nt)
    /\ u = [l \in Levels |-> ZeroField]
    /\ \E x \in CoordXs, d \in [0 .. (nt - 1) -> {0, Amp}] :
          src = [x |-> x, z |-> Depth, data |-> d]
    /\ rec = [k \in 0 .. (nt - 1) |-> [r \in Recs |-> 0]]
    /\ time = TimeMin
    /\ pc = "ready"
    /\ run = 1
    /\ reset = FALSE
    /\ out1 = <<>>
    /\ log = <<>>
    /\ todo = {} /\ pulse = <<>>
    /\ args = <<>> /\ grid = <<>> /\ raised = "none"
    /\ NoProbe /\ NoFwi

\* The source injection for a coordinate whose cell is off the padded grid.
\* The generated loop indexes u.forward at the cell's nodes without a range
\* test, so the writes go outside the array: they land in memory that is
\* not the field's (the run goes on, the contribution is lost), or in
\* another entry of u.data (some level, the wrapped row), or on an unmapped
\* page (the process dies in the middle of the timestep).
WaveInjectOutside ==
    /\ pc = "inject"
    /\ ~InPadded(src.x, src.z)
    /\ \/ /\ u' = u
          /\ pc' = NextPhase("inject")
          /\ log' = Append(log, <<time, "inject">>)
          /\ raised' = raised
       \/ /\ \E l \in Levels :
                u' = [u EXCEPT ![l][WrappedNode(src.x, src.z)] =
                         @ + FullShare(time, WrappedNode(src.x, src.z))]
          /\ pc' = NextPhase("inject")
          /\ log' = Append(log, <<time, "inject">>)
          /\ raised' = raised
       \/ /\ u' = u
          /\ pc' = "crashed"
          /\ log' = log
          /\ raised' = "SegmentationFault"
    /\ UNCHANGED <<nb, nt, dt, time, convVars, waveVars, args, grid, probeVars, fwiVars>>

NextCoord ==
    \/ NextWave
    \/ WaveInjectOutside

SpecCoord == InitCoord /\ [][NextCoord]_vars

(***************************************************************************)
(*   Injection followed by sampling: the two sparse operators of           *)
(*   D-seismic_modelling_devito applied to a zero field, for a pair of     *)
(*   coordinates and for the pair exchanged                                *)
(***************************************************************************)

\* The coordinates tried, on and off the grid nodes, over the physical extent.
ProbeCoords == 0 .. DomainSize

\* rec.interpolate(expr=u.forward, ...) for one coordinate.
SampleAt(l, px, pz) == SumWeighted(l, px, pz) \div (Spacing * Spacing)

InitAdjoint ==
    /\ nb = "kernel"
    /\ nt = 1
    /\ dt = CriticalDt
    /\ save = FALSE
    /\ u = [l \in 0 .. 2 |-> ZeroField]
    /\ \E x \in ProbeCoords, z \in ProbeCoords :
          src = [x |-> x, z |-> z, data |-> [k \in 0 .. 0 |-> Amp]]
    /\ \E x \in ProbeCoords, z \in ProbeCoords : probe = [x |-> x, z |-> z]
    /\ rec = <<>>
    /\ time = 0
    /\ pc = "inject"
    /\ run = 1
    /\ reset = FALSE
    /\ out1 = <<>>
    /\ log = <<>>
    /\ todo = {} /\ pulse = <<>>
    /\ args = <<>> /\ grid = <<>> /\ raised = "none"
    /\ NoFwi

\* The sample at the probe coordinate, taken from the field just injected.
ProbeSample ==
    /\ pc = "sample"
    /\ rec' = <<SampleAt(Slot(time + 1), probe.x, probe.z)>>
    /\ pc' = IF run = 1 THEN "sampled" ELSE "done"
    /\ UNCHANGED <<nb, nt, dt, u, time, log, convVars, src, save, run, reset, out1,
                   gridVars, probeVars, fwiVars>>

\* The same experiment with the two coordinates exchanged, on a zero field.
ProbeSwap ==
    /\ pc = "sampled"
    /\ out1' = rec
    /\ u' = [l \in 0 .. 2 |-> ZeroField]
    /\ src' = [src EXCEPT !.x = probe.x, !.z = probe.z]
    /\ probe' = [x |-> src.x, z |-> src.z]
    /\ run' = 2
    /\ pc' = "inject"
    /\ UNCHANGED <<nb, nt, dt, time, log, convVars, rec, save, reset, gridVars, fwiVars>>

NextAdjoint ==
    \/ WaveInject
    \/ ProbeSample
    \/ ProbeSwap

SpecAdjoint == InitAdjoint /\ [][NextAdjoint]_vars

(***************************************************************************)
(*   Gradient over the shots and the descent loop  (E-fwi_devito:          *)
(*   fwi_gradient, apply_box_constraint, the FWI loop)                     *)
(***************************************************************************)

\* Number of shots (nshots = 9, scaled down).
NShots == 2
\* Number of descent iterations (fwi_iterations = 5, scaled down).
FwiIterations == 2
\* time_range.num of the inversion's time axis, scaled down.
FwiNum == 5

\* Square slowness in thousandths of s^2/km^2: the background (vp 2.5), the
\* circle of the true model (vp 3.0), and the box 1/3.5^2 .. 1/2^2.
MBackground == 160
MCircle == 111
MMin == 82
MMax == 250
\* The step .005 of the descent, in the unit of the square slowness.
StepLength == 5
\* dt^2 / h^2 for dt = model.critical_dt in the unit of the square slowness:
\* within the stability bound for every slowness of the box.
DtOverH2 == 32
\* x of every shot (30. in the notebook; here half a spacing).
ShotX == Spacing \div 2

Shots == 1 .. NShots
ShotZ(s) == ((s - 1) * DomainSize) \div (NShots - 1)
ShotLoc(s) == <<ShotX, ShotZ(s)>>

\* Receivers of the inversion: a fixed x near the right end, evenly spaced in z.
FwiRecX(r) == DomainSize - Depth
FwiRecZ(r) == ((r - 1) * DomainSize) \div (NRec - 1)

\* model.m: the background with the circle at the centre of the grid.
ModelTrue ==
    [n \in Nodes |-> IF n = <<NTot \div 2, NTot \div 2>> THEN MCircle ELSE MBackground]

\* model.damp in the unit of the square slowness.
DampFor(n) == DtOverH2 * Damp(n)

\* A float that is not a number: a value no operation on numbers produces.
\* An operation with a nan operand gives nan.
NaN == Infinity + 1
IsNaN(v) == v = NaN
AddF(a, b) == IF IsNaN(a) \/ IsNaN(b) THEN NaN ELSE a + b
SubF(a, b) == IF IsNaN(a) \/ IsNaN(b) THEN NaN ELSE a - b
MulF(a, b) == IF IsNaN(a) \/ IsNaN(b) THEN NaN ELSE a * b

\* An array as held in memory: every entry computed, once.
Stored(f) == IF f = f THEN f ELSE f

AtF(f, x, z) == IF x \in Axis /\ z \in Axis THEN f[<<x, z>>] ELSE 0
LaplaceOf(f, n) ==
    AtF(f, n[1] + 1, n[2]) + AtF(f, n[1] - 1, n[2])
      + AtF(f, n[1], n[2] + 1) + AtF(f, n[1], n[2] - 1) - 4 * f[n]

\* The stencil of the solver for square slowness mm, from the current and the
\* previous level (the next one, when stepping backwards).
StencilFor(mm, cur, prev, n) ==
    IF NaN \in {mm[n], cur[n], prev[n], AtF(cur, n[1] + 1, n[2]), AtF(cur, n[1] - 1, n[2]),
                AtF(cur, n[1], n[2] + 1), AtF(cur, n[1], n[2] - 1)}
       THEN NaN
       ELSE (2 * DtOverH2 * dt * dt * LaplaceOf(cur, n)
               + 4 * mm[n] * cur[n] - (2 * mm[n] - DampFor(n) * dt) * prev[n])
            \div (2 * mm[n] + DampFor(n) * dt)

\* Injection of amplitude amp at coordinate pos: the node's kernel weight
\* times amp * dt**2 / m.
ShareFor(mm, pos, amp, n) ==
    IF ~InCell(pos[1], pos[2], n) THEN 0
    ELSE IF IsNaN(amp) \/ IsNaN(mm[n]) THEN NaN
    ELSE (Weight(pos[1], pos[2], n) * amp * DtOverH2 * dt * dt)
            \div (Spacing * Spacing * mm[n])

\* Interpolation of a level at a coordinate.
SampleOf(f, px, pz) ==
    LET c0 == CellNode(px, pz)
        V(a, b) == MulF(Weight(px, pz, <<c0[1] + a, c0[2] + b>>),
                        AtF(f, c0[1] + a, c0[2] + b))
        sum == AddF(AddF(V(0, 0), V(1, 0)), AddF(V(0, 1), V(1, 1)))
    IN  IF IsNaN(sum) THEN NaN ELSE sum \div (Spacing * Spacing)

ZeroLevels(k) == [l \in 0 .. k |-> ZeroField]
ZeroRows == [k \in 0 .. (nt - 1) |-> [r \in Recs |-> 0]]

\* solver.forward: the time loop from index t to index last on buffer buf
\* (level index = time index), for the source at pos; gives the buffer and
\* the receiver rows.
RECURSIVE ForwardFrom(_, _, _, _, _, _)
ForwardFrom(mm, pos, buf, rows, t, last) ==
    IF t > last THEN [u |-> buf, rec |-> rows]
    ELSE LET nxt == Stored([n \in Nodes |->
                        AddF(StencilFor(mm, buf[t], buf[t - 1], n),
                             ShareFor(mm, pos, src.data[t], n))])
             row == [r \in Recs |-> SampleOf(nxt, FwiRecX(r), FwiRecZ(r))]
         IN  ForwardFrom(mm, pos, [buf EXCEPT ![t + 1] = nxt],
                         [rows EXCEPT ![t] = row], t + 1, last)

\* true_d: forward on a field of the solver's own (three rotating levels,
\* last index num - 1; the rows do not depend on the slot a level is kept in).
TrueData(pos) ==
    ForwardFrom(ModelTrue, pos, ZeroLevels(nt), ZeroRows, TimeMin, nt - 1).rec

\* residual.data[:] = smooth_d.data[:] - true_d.data[:]
ResidualOf(sm, tr) ==
    Stored([k \in 0 .. (nt - 1) |-> [r \in Recs |-> SubF(sm[k][r], tr[k][r])]])

\* The residual injected into v.backward: for every receiver the node's
\* kernel weight times rec * dt**2 / m.
RECURSIVE RecShare(_, _, _, _)
RecShare(mm, row, n, r) ==
    IF r = 0 THEN 0
    ELSE AddF(RecShare(mm, row, n, r - 1),
              ShareFor(mm, <<FwiRecX(r), FwiRecZ(r)>>, row[r], n))

\* u.dt2 at time index t.
Dt2(uu, t, n) ==
    IF NaN \in {uu[t + 1][n], uu[t][n], uu[t - 1][n]} THEN NaN
    ELSE (uu[t + 1][n] - 2 * uu[t][n] + uu[t - 1][n]) \div (dt * dt)

\* Variant of the gradient update: Eq(grad, - u.dt2 * v).
GradUpdateAssign(g, uu, v, t) == [n \in Nodes |-> SubF(0, MulF(Dt2(uu, t, n), v[n]))]

\* Inc(grad, - u.dt2 * v)
GradUpdate(g, uu, v, t) == [n \in Nodes |-> SubF(g[n], MulF(Dt2(uu, t, n), v[n]))]

\* solver.gradient: the adjoint time loop from index t down to the first,
\* on a field v of its own; vcur is v at t, vfwd is v at t + 1.  Per index:
\* the stencil for v.backward, the injection of the residual row, the update
\* of grad.
RECURSIVE GradientFrom(_, _, _, _, _, _, _)
GradientFrom(mm, uu, res, g, vcur, vfwd, t) ==
    IF t < TimeMin THEN g
    ELSE LET vbwd == Stored([n \in Nodes |->
                         AddF(StencilFor(mm, vcur, vfwd, n),
                              RecShare(mm, res[t], n, NRec))])
         IN  GradientFrom(mm, uu, res, Stored(GradUpdate(g, uu, vcur, t)),
                          vbwd, vcur, t - 1)

\* Largest k with k * k <= v.
ISqrt(v) == CHOOSE k \in 0 .. v : k * k <= v /\ (k + 1) * (k + 1) > v

\* The square of a sample, in units of the amplitude.
Sq(v) == (v * v) \div Amp

RECURSIVE SumSeq(_)
SumSeq(s) == IF s = <<>> THEN 0 ELSE Head(s) + SumSeq(Tail(s))

\* .5 * np.linalg.norm(residual.data.flatten()**2)
Misfit(res) ==
    IF \E k \in DOMAIN res : \E r \in Recs : IsNaN(res[k][r]) THEN NaN
    ELSE ISqrt(SumSeq([k \in 1 .. nt |->
                 SumSeq([r \in Recs |-> Sq(res[k - 1][r]) * Sq(res[k - 1][r])])]))
           \div 2

\* np.clip(m, 1/3.5**2, 1/2**2) for one entry; nan stays nan.
Clip(v) == IF IsNaN(v) THEN NaN
           ELSE IF v < MMin THEN MMin ELSE IF v > MMax THEN MMax ELSE v

\* np.max(direction); nan when an entry is nan.
MaxOf(d) == CHOOSE v \in {d[n] : n \in Nodes} : \A n \in Nodes : d[n] <= v

\* model0.m.data - alpha * direction for one entry, alpha = .005 / np.max(direction).
\* A zero maximum makes alpha inf: the entry becomes nan where the direction
\* is zero, and +inf where it is negative.
Descended(v, d, mx) ==
    IF NaN \in {v, d, mx} THEN NaN
    ELSE IF mx > 0 THEN v - ((StepLength * d) \div mx)
    ELSE IF mx < 0 THEN v + ((StepLength * (0 - d)) \div (0 - mx))
    ELSE IF d = 0 THEN NaN ELSE Infinity

\* The starting models tried: uniform, at the background and at either end
\* of the box.
StartValues == {MMin, MBackground, MMax}

\* The source wavelets tried: a single pulse and a sustained one.
Wavelets == {[k \in 0 .. (FwiNum - 1) |-> IF k = 1 THEN Amp ELSE 0],
             [k \in 0 .. (FwiNum - 1) |-> Amp]}

\* The orders in which the shots can be taken.
ShotOrders == {s \in [Shots -> Shots] : \A a, b \in Shots : s[a] = s[b] => a = b}

InitFwi ==
    /\ nb = "fwi"
    /\ nt = FwiNum
    /\ dt = CriticalDt
    /\ save = TRUE
    /\ u = <<>>
    /\ \E w \in Wavelets : src = [x |-> DomainSize \div 2, z |-> Depth, data |-> w]
    /\ \E v \in StartValues : model0 = [n \in Nodes |-> v]
    /\ rec = <<>> /\ true_d = <<>> /\ residual = <<>>
    /\ grad = <<>> /\ objective = 0 /\ history = <<>> /\ shots = <<>>
    /\ iter = 0
    /\ pc = "loop"
    /\ time = 0 /\ run = 1 /\ reset = FALSE /\ out1 = <<>> /\ log = <<>>
    /\ todo = {} /\ pulse = <<>>
    /\ args = <<>> /\ grid = <<>> /\ raised = "none"
    /\ NoProbe

\* phi, direction = fwi_gradient(model0.m): grad, residual, objective and the
\* saved field u0 are created; the shots are taken in some order.
FwiCall ==
    /\ pc = "loop"
    /\ grad' = ZeroField
    /\ residual' = ZeroRows
    /\ objective' = 0
    /\ u' = ZeroLevels(nt - 1)
    /\ shots' \in ShotOrders
    /\ pc' = "shot"
    /\ UNCHANGED <<nb, nt, dt, time, log, convVars, src, rec, save, run, reset, out1,
                   gridVars, probeVars, model0, history, true_d, iter>>

\* src.coordinates.data[0, :] = source_locations[i, :]
FwiSetSource ==
    /\ pc = "shot"
    /\ src' = [src EXCEPT !.x = ShotLoc(Head(shots))[1], !.z = ShotLoc(Head(shots))[2]]
    /\ pc' = "true"
    /\ UNCHANGED <<nb, nt, dt, u, time, log, convVars, rec, save, run, reset, out1,
                   gridVars, probeVars, fwiVars>>

\* true_d, _, _ = solver.forward(src=src, m=model.m)
FwiTrueForward ==
    /\ pc = "true"
    /\ true_d' = TrueData(<<src.x, src.z>>)
    /\ pc' = "fill"
    /\ UNCHANGED <<nb, nt, dt, u, time, log, convVars, waveVars, gridVars, probeVars,
                   model0, grad, objective, history, shots, residual, iter>>

\* u0.data.fill(0.)
FwiFill ==
    /\ pc = "fill"
    /\ u' = FilledBuffer
    /\ pc' = "smooth"
    /\ UNCHANGED <<nb, nt, dt, time, log, convVars, waveVars, gridVars, probeVars, fwiVars>>

\* smooth_d, _, _ = solver.forward(src=src, m=m_in, save=True, u=u0)
FwiSmoothForward ==
    /\ pc = "smooth"
    /\ LET out == ForwardFrom(model0, <<src.x, src.z>>, u, ZeroRows, TimeMin, TimeMax(nt))
       IN  u' = out.u /\ rec' = out.rec
    /\ pc' = "residual"
    /\ UNCHANGED <<nb, nt, dt, time, log, convVars, src, save, run, reset, out1,
                   gridVars, probeVars, fwiVars>>

\* residual.data[:] = smooth_d.data[:] - true_d.data[:]
\* objective += .5*np.linalg.norm(residual.data.flatten()**2)
FwiResidual ==
    /\ pc = "residual"
    /\ residual' = ResidualOf(rec, true_d)
    /\ objective' = AddF(objective, Misfit(residual'))
    /\ pc' = "gradient"
    /\ UNCHANGED <<nb, nt, dt, u, time, log, convVars, waveVars, gridVars, probeVars,
                   model0, grad, history, shots, true_d, iter>>

\* solver.gradient(rec=residual, u=u0, m=m_in, grad=grad); the loop goes on
\* to the next shot, or fwi_gradient returns objective and grad.data.
FwiGradient ==
    /\ pc = "gradient"
    /\ grad' = GradientFrom(model0, u, residual, grad, ZeroField, ZeroField, TimeMax(nt))
    /\ log' = Append(log, Head(shots))
    /\ shots' = Tail(shots)
    /\ pc' = IF Tail(shots) = <<>> THEN "return" ELSE "shot"
    /\ UNCHANGED <<nb, nt, dt, u, time, convVars, waveVars, gridVars, probeVars,
                   model0, objective, history, true_d, residual, iter>>

\* The rest of the loop body: history[i] = phi, the step length from the
\* largest entry of the direction, and the clipped update of model0.m.
DescentStep ==
    /\ pc = "return"
    /\ history' = Append(history, objective)
    /\ model0' = [n \in Nodes |->
                    Clip(Descended(model0[n], grad[n], MaxOf(grad)))]
    /\ out1' = Append(out1, model0)
    /\ log' = <<>>
    /\ iter' = iter + 1
    /\ pc' = IF iter + 1 < FwiIterations THEN "loop" ELSE "done"
    /\ UNCHANGED <<nb, nt, dt, u, time, convVars, src, rec, save, run, reset,
                   gridVars, probeVars, grad, objective, shots, true_d, residual>>

NextFwi ==
    \/ FwiCall
    \/ FwiSetSource
    \/ FwiTrueForward
    \/ FwiFill
    \/ FwiSmoothForward
    \/ FwiResidual
    \/ FwiGradient
    \/ DescentStep

SpecFwi == InitFwi /\ [][NextFwi]_vars

(***************************************************************************)
(*      Grid and field set-up  (part_000, part_001: Grid, TimeFunction)    *)
(***************************************************************************)

\* Largest number of points per axis tried (41 and 81 in the notebooks).
MaxDim == 2
\* Largest number of entries of shape and extent tried.
MaxRank == 2

\* The extent per axis, 2. in both notebooks, in fixed point.
ExtentValue == 2 * Unit

Tuples(S) == UNION {[1 .. k -> S] : k \in 1 .. MaxRank}

\* An argument as written in the call: (41) is the number 41, (81,81) a tuple.
ShapeArgs == [tuple : {FALSE}, val : [1 .. 1 -> 0 .. MaxDim]]
               \cup [tuple : {TRUE}, val : Tuples(0 .. MaxDim)]
ExtentArgs == [tuple : {FALSE}, val : [1 .. 1 -> {ExtentValue}]]
                \cup [tuple : {TRUE}, val : Tuples({ExtentValue})]

\* The call's arguments taken as tuples: a bare number is a 1-tuple.
AsTuple(a) == a.val

\* Grid(shape=..., extent=...): what the constructor raises.  It stores its
\* arguments as tuples and compares or checks nothing; the only failure is
\* the array division of the spacing, for two lengths that differ and are
\* both above one (they do not broadcast).
GridRaises(shape, extent) ==
    IF /\ Len(AsTuple(shape)) # Len(AsTuple(extent))
       /\ Len(AsTuple(shape)) > 1
       /\ Len(AsTuple(extent)) > 1
       THEN "ValueError" ELSE "none"

\* Division of float arrays: a zero divisor gives inf (a warning, no error).
FloatDiv(a, b) == IF b = 0 THEN Infinity ELSE a \div b

\* Entry i of a tuple in an array operation: a one-entry tuple is broadcast.
Broadcast(t, i) == IF Len(t) = 1 THEN t[1] ELSE t[i]

\* Variant of the spacing: the extent divided by the number of points.
GridSpacingByPoints(shape, extent) ==
    [i \in 1 .. Len(AsTuple(shape)) |->
        FloatDiv(Broadcast(AsTuple(extent), i), AsTuple(shape)[i])]

\* grid.spacing = extent / (shape - 1), one entry per axis of the grid.
GridSpacing(shape, extent) ==
    [i \in 1 .. Len(AsTuple(shape)) |->
        FloatDiv(Broadcast(AsTuple(extent), i), AsTuple(shape)[i] - 1)]

\* The grid object the constructor returns.
GridObject(shape, extent) ==
    [shape |-> AsTuple(shape), extent |-> AsTuple(extent),
     spacing |-> GridSpacing(shape, extent)]

\* Model(shape=..., spacing=..., nbpml=...): the shapes tried, and the
\* arguments the model passes to Grid: the shape widened by the absorbing
\* layer on both sides and the extent spacing * (padded shape - 1).
ModelShapes == [1 .. 2 -> 1 .. MaxDim]
PaddedShape(sh) == [i \in 1 .. Len(sh) |-> sh[i] + 2 * Nbpml]
ModelGridArgs(sh) ==
    [shape |-> [tuple |-> TRUE, val |-> PaddedShape(sh)],
     extent |-> [tuple |-> TRUE,
                 val |-> [i \in 1 .. Len(sh) |-> Spacing * (PaddedShape(sh)[i] - 1)]],
     spacing |-> [i \in 1 .. Len(sh) |-> Spacing]]

\* Index space of a field on the grid.
RECURSIVE GridPoints(_)
GridPoints(sh) ==
    IF sh = <<>> THEN {<<>>}
    ELSE {Append(p, i) : p \in GridPoints(SubSeq(sh, 1, Len(sh) - 1)),
                         i \in 0 .. (sh[Len(sh)] - 1)}

InitGrid ==
    /\ nb = "setup"
    /\ args \in [shape : ShapeArgs, extent : ExtentArgs, spacing : {<<>>}]
                   \cup {ModelGridArgs(sh) : sh \in ModelShapes}
    /\ grid = <<>>
    /\ raised = "none"
    /\ u = <<>>
    /\ pc = "start"
    /\ nt = 0 /\ dt = 0 /\ time = 0 /\ log = <<>>
    /\ todo = {} /\ pulse = <<>>
    /\ src = <<>> /\ rec = <<>> /\ save = FALSE /\ run = 1 /\ reset = FALSE /\ out1 = <<>>
    /\ NoProbe /\ NoFwi

\* grid = Grid(shape=..., extent=...)
MakeGrid ==
    /\ pc = "start"
    /\ raised' = GridRaises(args.shape, args.extent)
    /\ IF GridRaises(args.shape, args.extent) = "none"
          THEN /\ grid' = GridObject(args.shape, args.extent)
               /\ pc' = "grid"
          ELSE /\ grid' = grid
               /\ pc' = "failed"
    /\ UNCHANGED <<nb, nt, dt, u, time, log, args, convVars, waveVars, probeVars, fwiVars>>

\* u = TimeFunction(name='u', grid=grid): two zero time levels over the grid.
MakeField ==
    /\ pc = "grid"
    /\ u' = [l \in 0 .. 1 |-> [p \in GridPoints(grid.shape) |-> 0]]
    /\ pc' = "field"
    /\ UNCHANGED <<nb, nt, dt, time, log, gridVars, convVars, waveVars, probeVars, fwiVars>>

NextGrid ==
    \/ MakeGrid
    \/ MakeField

SpecGrid == InitGrid /\ [][NextGrid]_vars

(***************************************************************************)
(*                 Properties of the convection run                        *)
(***************************************************************************)

\* dt is at or below the stability bound h_x / c of the one-sided scheme.
Stable == c * dt <= H

\* C2 (as stated): a run configured with nt timesteps executes only the time
\* indices 0 .. nt-1: no timestep with index >= nt is ever being executed,
\* and the finished run has executed exactly 0, 1, ..., nt-1 in that order.
C2_OnlyNtSteps ==
    /\ (pc = "run" => time < nt)
    /\ (pc = "done" => log = [k \in 1 .. nt |-> k - 1])

\* C6: within one timestep every point already updated holds the value the
\* update rule gives from the current level alone, whatever points were
\* updated before it and in whatever order; so when the sweep is complete
\* the next level is the same for every order of the point updates.
C6_OrderIndependent ==
    pc = "run" =>
        \A i \in Points \ todo : u[T1(time)][i] = Stencil(T0(time), i)

\* C6 witness: a sweep completed in which a point was updated after its left
\* neighbour's next-level value had already been written with another value
\* than its current-level one.
C6_Witness ==
    /\ pc = "run"
    /\ todo = {}
    /\ time >= 1
    /\ \E i \in Points : i >= 1 /\ u[T1(time)][i - 1] # u[T0(time)][i - 1]
                               /\ u[T1(time)][i] # u[T0(time)][i]

\* C8: for dt at or below the stability bound, every value of the field stays
\* within the initial minimum (0, the background) and the initial maximum
\* (2, the pulse height) after every timestep.
C8_NoGrowth ==
    Stable => \A l \in 0 .. 1 : \A i \in Points :
                  u[l][i] >= 0 /\ u[l][i] <= 2 * Unit

\* C8 witness: a finished stable run of at least three timesteps whose pulse
\* has been smeared (some value strictly between background and height).
C8_Witness ==
    /\ pc = "done"
    /\ Stable
    /\ Len(log) >= 3
    /\ \E i \in Points : u[T1(time)][i] > 0 /\ u[T1(time)][i] < 2 * Unit

\* C9 (as stated): a run whose dt violates the stability bound never ends as
\* a normal run with an all-finite field.  The run has no failure exit, so
\* the only way left for it to satisfy the claim is a non-finite value.
C9_UnstableNeverEndsFinite ==
    (pc = "done" /\ ~Stable) =>
        \E l \in 0 .. 1 : \E i \in Points : ~IsFinite(u[l][i])


(***************************************************************************)
(*             Properties of the wave run and of the rerun                 *)
(***************************************************************************)

Fwd == Slot(time + 1)
SampleTimes == [k \in 1 .. Len(SelectSeq(log, LAMBDA e : e[2] = "sample")) |->
                   SelectSeq(log, LAMBDA e : e[2] = "sample")[k][1]]
ZeroSource == \A k \in DOMAIN src.data : src.data[k] = 0
Outputs == <<u, rec>>

\* C1 (as stated): in every timestep the source injection comes before the
\* stencil update: whenever the stencil update of timestep t has run, the
\* injection of timestep t has run before it.
C1_InjectBeforeStencil ==
    \A k \in 1 .. Len(log) :
        log[k][2] = "stencil" =>
            \E j \in 1 .. (k - 1) : log[j] = <<log[k][1], "inject">>

\* C1 (amended): in every timestep the phases run in the fixed order
\* stencil update (damping term included), source injection, receiver
\* sampling, and only then the time index advances; none is skipped.  So at
\* the end of a timestep the next level is the stencil value plus the
\* injected share, and the receiver row holds the interpolation of that
\* injected field.
C1_StencilInjectSample ==
    /\ \A k \in 1 .. Len(log) :
          log[k] = <<TimeMin + ((k - 1) \div 3),
                     <<"stencil", "inject", "sample">>[((k - 1) % 3) + 1]>>
    /\ pc = "advance" /\ TimeMin <= TimeMax(nt) =>
          /\ Len(log) = 3 * (time - TimeMin + 1)
          /\ \A n \in Nodes :
                u[Fwd][n] = WaveStencil(time, n) + NPoint * Share(time, n)
          /\ \A r \in Recs : rec[time][r] = Interpolate(Fwd, r)

\* C1 witness: the end of a second or later timestep in which the stencil
\* value and the injected share are both non-zero at a node and a receiver
\* recorded a non-zero sample.
C1_Witness ==
    /\ pc = "advance"
    /\ time >= 2
    /\ \E n \in Nodes : Share(time, n) # 0 /\ WaveStencil(time, n) # 0
    /\ \E r \in Recs : rec[time][r] # 0

\* C3: with a source that is zero at every time index (the field starts
\* zero), every grid point of every resident time level and every receiver
\* sample is zero in every state of the run and of the rerun.
C3_ZeroStaysZero ==
    ZeroSource =>
        /\ \A l \in Levels : \A n \in Nodes : u[l][n] = 0
        /\ \A k \in DOMAIN rec : \A r \in Recs : rec[k][r] = 0

\* C3 witness: a finished run of at least two timesteps with a zero source.
C3_Witness ==
    /\ ZeroSource
    /\ pc = "done"
    /\ Len(log) >= 6

C5_ResetSameElseDifferent ==
    (run = 2 /\ pc = "done") =>
        /\ reset => Outputs = out1
        /\ ~reset => Outputs # out1

\* C5 (amended): after a reset the rerun's field and receiver series equal
\* the first run's exactly; without a reset the rerun starts from the buffer
\* as the first run left it, and its output still equals the first run's
\* when every time level is saved (levels 0 and 1 are written by no run and
\* every other level is assigned before it is read).
C5_ResetOrSavedSame ==
    /\ (run = 2 /\ pc = "done" /\ (reset \/ save)) => Outputs = out1
    /\ (run = 2 /\ pc = "ready" /\ ~reset) => u = out1[1]

\* C5 witness: a finished rerun after a reset of a rotating buffer whose
\* first run recorded a non-zero sample.
C5_Witness ==
    /\ run = 2
    /\ pc = "done"
    /\ reset
    /\ ~save
    /\ \E k \in DOMAIN rec : \E r \in Recs : out1[2][k][r] # 0

\* A finished rerun without reset whose output differs from the first run's.
C5_AccumulatedReachable ==
    /\ run = 2
    /\ pc = "done"
    /\ ~reset
    /\ Outputs # out1

InTimestep == pc \in {"stencil", "inject", "sample", "advance"}

C14_SlotReused ==
    /\ ~save
    /\ pc = "advance"
    /\ time >= 2
    /\ Slot(time + 1) = Slot(time - 2)
    /\ u[Slot(time + 1)] # ZeroField

(***************************************************************************)
(*             Properties of the source and receiver coordinates           *)
(***************************************************************************)

SrcInside == InPadded(src.x, src.z)
FieldUntouched == \A l \in Levels : u[l] = ZeroField

C11_OutsideRunCompletes ==
    /\ ~SrcInside
    /\ pc = "done"
    /\ raised = "none"
    /\ Len(log) = 3 * (TimeMax(nt) - TimeMin + 1)

\* A run with the source exactly on an edge of the physical extent that
\* completed and recorded a non-zero sample.
C11_EdgeAccepted ==
    /\ src.x \in {0, DomainSize}
    /\ pc = "done"
    /\ raised = "none"
    /\ \E k \in DOMAIN rec : \E r \in Recs : rec[k][r] # 0

\* The nodes of the cell enclosing a coordinate.
CellNodes(px, pz) == {n \in Nodes : InCell(px, pz, n)}

RECURSIVE SumOver(_, _)
SumOver(f, S) ==
    IF S = {} THEN 0
    ELSE LET n == CHOOSE k \in S : TRUE IN f[n] + SumOver(f, S \ {n})

\* The impulse scaled by the kernel's self-weight at a coordinate: the sum
\* over the cell's nodes of the squared node weight times the scaled
\* amplitude at the node.
SelfWeighted(px, pz) ==
    SumOver([n \in Nodes |->
                (Weight(px, pz, n) * Weight(px, pz, n) * src.data[time] * dt * dt)
                   \div M(n)],
            CellNodes(px, pz))
      \div (Spacing * Spacing * Spacing * Spacing)

Consistent == Len(AsTuple(args.shape)) = Len(AsTuple(args.extent))
AllPositive == \A i \in DOMAIN AsTuple(args.shape) : AsTuple(args.shape)[i] > 0

\* C10 (as stated): once set-up has been attempted, input whose shape and
\* extent differ in length or whose shape has a non-positive entry has ended
\* in ConfigurationError with no grid and no field created, and consistent
\* all-positive input has succeeded.
C10_RejectsBadInput ==
    pc # "start" =>
        IF Consistent /\ AllPositive
           THEN raised = "none" /\ grid # <<>>
           ELSE raised = "ConfigurationError" /\ grid = <<>> /\ u = <<>>

(***************************************************************************)
(*          Properties of fwi_gradient and of the descent loop             *)
(***************************************************************************)

\* One shot alone, for square slowness mm, on buffers of its own that start
\* zero: the saved forward run, the residual, the misfit and the gradient.
ShotForward(mm, s) ==
    ForwardFrom(mm, ShotLoc(s), ZeroLevels(nt - 1), ZeroRows, TimeMin, TimeMax(nt))
ShotResidual(mm, s) ==
    ResidualOf(Stored(ShotForward(mm, s).rec), Stored(TrueData(ShotLoc(s))))
ShotMisfit(mm, s) == Misfit(ShotResidual(mm, s))
ShotGradient(mm, s) ==
    GradientFrom(mm, Stored(ShotForward(mm, s).u), ShotResidual(mm, s),
                 ZeroField, ZeroField, ZeroField, TimeMax(nt))

\* The sums of the contributions of a set of shots.
RECURSIVE MisfitOver(_, _)
MisfitOver(mm, S) ==
    IF S = {} THEN 0
    ELSE LET s == CHOOSE k \in S : \A j \in S : k <= j
         IN  AddF(ShotMisfit(mm, s), MisfitOver(mm, S \ {s}))
RECURSIVE GradientOver(_, _)
GradientOver(mm, S) ==
    IF S = {} THEN ZeroField
    ELSE LET s == CHOOSE k \in S : \A j \in S : k <= j
             g == Stored(ShotGradient(mm, s))
             h == Stored(GradientOver(mm, S \ {s}))
         IN  [n \in Nodes |-> AddF(g[n], h[n])]

ShotsDone == {log[k] : k \in 1 .. Len(log)}

InBox(v) == v >= MMin /\ v <= MMax

\* C16 (as stated): after every iteration's update every entry of model0.m
\* lies in the box, whatever direction and step length were; the loop runs
\* exactly fwi_iterations iterations and history holds one objective value
\* per iteration, that of the model as it was before the iteration's update.
C16_BoxAndHistory ==
    /\ iter >= 1 => \A n \in Nodes : InBox(model0[n])
    /\ Len(history) = iter
    /\ iter <= FwiIterations
    /\ pc = "done" => iter = FwiIterations
    /\ \A i \in 1 .. Len(history) : history[i] = MisfitOver(out1[i], Shots)

\* The parts of C16 that hold: the iteration count and the history, and the
\* box for every update whose direction has a non-zero finite maximum.
C16_HistoryAndBoxForFiniteStep ==
    /\ Len(history) = iter
    /\ iter <= FwiIterations
    /\ pc = "done" => iter = FwiIterations
    /\ \A i \in 1 .. Len(history) : history[i] = MisfitOver(out1[i], Shots)
    /\ (iter >= 1 /\ pc \in {"loop", "done"} /\ MaxOf(grad) # 0 /\ ~IsNaN(MaxOf(grad))) =>
           \A n \in Nodes : InBox(model0[n])

\* An update that the box changed: an entry brought back to a limit.
C16_ClipActs ==
    /\ iter >= 1
    /\ pc \in {"loop", "done"}
    /\ \E n \in Nodes :
          /\ ~IsNaN(model0[n])
          /\ ~InBox(Descended(out1[iter][n], grad[n], MaxOf(grad)))

SpacingGiven == args.spacing # <<>>

C13_FromSpacingReachable == grid # <<>> /\ SpacingGiven /\ grid.shape[1] # grid.shape[2]
C13_SinglePointReachable == grid # <<>> /\ \E i \in 1 .. Len(grid.shape) : grid.shape[i] = 1

=============================================================================
